---------------------------- MODULE Spec2Model ----------------------------
(***************************************************************************)
(* Model of scripts/remove-duplicate-functions.py: the boundary locator   *)
(* find_function_boundaries and the batch remover main.                    *)
(*                                                                         *)
(* A document is the list readlines() returns: a sequence of lines, each   *)
(* line a sequence of one-character strings that ends with "\n".  Line     *)
(* numbers are 1-based, as the script prints them (start + 1, end + 1);    *)
(* Python's None is the line number 0.  The file is taken to exist: main    *)
(* returns at once, changing nothing, when it does not.                    *)
(*                                                                         *)
(* A character is written as itself, with the escapes of TLA+ strings;    *)
(* a character a TLA+ string cannot hold is written by its code point, as  *)
(* in "U+2028".                                                            *)
(***************************************************************************)
EXTENDS Integers, Sequences, FiniteSets

VARIABLES
    file,       \* the lines of src/storage/db.ts on disk
    names,      \* FUNCTIONS_TO_REMOVE, the requested names in order
    original,   \* the lines on disk before the first run of main
    read,       \* the lines the last run of main read (its snapshot)
    ranges,     \* ranges_to_remove of the last run, after its sort
    notFound,   \* the names the last run reported as not found, in order
    runs,       \* how many runs of main have completed
    boundary    \* what a direct call of find_function_boundaries returned

vars == <<file, names, original, read, ranges, notFound, runs, boundary>>

\* ------------------------------------------------------------ bounds
MaxLen == 4
MaxNames == 2
MaxRuns == 2

\* ------------------------------------------------------------ text
None == 0

\* 'export async function '
DeclPrefix ==
    <<"e","x","p","o","r","t"," ","a","s","y","n","c"," ","f","u","n","c","t","i","o","n"," ">>
\* 'export async function A() {\n'
LineDeclA ==
    <<"e","x","p","o","r","t"," ","a","s","y","n","c"," ","f","u","n","c","t","i","o","n"," ","A","(",")"," ","{","\n">>
\* 'export async function AB() {}\n'
LineDeclAB ==
    <<"e","x","p","o","r","t"," ","a","s","y","n","c"," ","f","u","n","c","t","i","o","n"," ","A","B","(",")"," ","{","}","\n">>
\* 'export async function AB ()\n'
LineDeclABNoBrace ==
    <<"e","x","p","o","r","t"," ","a","s","y","n","c"," ","f","u","n","c","t","i","o","n"," ","A","B"," ","(",")","\n">>
\* 'export async function AB\x0b() {}}\n' (a vertical tab before the parenthesis)
LineDeclABExtraClose ==
    <<"e","x","p","o","r","t"," ","a","s","y","n","c"," ","f","u","n","c","t","i","o","n"," ","A","B","","(",")"," ","{","}","}","\n">>
\* '}\n'
LineClose ==
    <<"}","\n">>
\* '  if (x) {\n'
LineIf ==
    <<" "," ","i","f"," ","(","x",")"," ","{","\n">>
\* '  } else {\n'
LineElse ==
    <<" "," ","}"," ","e","l","s","e"," ","{","\n">>
\* '/**\n'
LineDocOpen ==
    <<"/","*","*","\n">>
\* '/** {\n'
LineDocOpenBrace ==
    <<"/","*","*"," ","{","\n">>
\* '\xa0*/\n' (a no-break space before the comment marker)
LineDocEnd ==
    <<" ","*","/","\n">>
\* '\n'
LineBlank ==
    <<"\n">>

\* The names a run may be asked to remove: 'A' and 'AB'.
Names == {<<"A">>, <<"A","B">>}

\* The names the locator is called with: these, and 'A.?+', read as the
\* regular expression "A", then possessively at most one character.
LocateNames == Names \cup {<<"A", ".", "?", "+">>}

\* The lines the documents of the locator's specification are made of.
LocatePool ==
    {LineDeclA, LineDeclABExtraClose, LineDeclABNoBrace, LineClose, LineIf,
     LineElse, LineDocOpen, LineDocEnd, LineBlank}

\* The lines the documents of the batch remover's specification are made of.
BatchPool ==
    {LineDeclA, LineDeclAB, LineDeclABNoBrace, LineClose, LineDocOpenBrace}

Docs(pool) == UNION {[1..n -> pool] : n \in 0..MaxLen}

NameLists == UNION {[1..n -> Names] : n \in 0..MaxNames}

\* The characters str.strip() removes and the regex class \s matches on a
\* str pattern, those for which str.isspace() holds: \t \n \x0b \f \r,
\* \x1c-\x1f, the space, \x85, \xa0, U+1680, U+2000-U+200A, U+2028, U+2029,
\* U+202F, U+205F and U+3000.
Whitespace ==
    {" ", "\t", "\n", "\r", "\f", "", "", "", "", "",
     "", " ", " "}
    \cup {"U+2000", "U+2001", "U+2002", "U+2003", "U+2004", "U+2005", "U+2006",
          "U+2007", "U+2008", "U+2009", "U+200A", "U+2028", "U+2029",
          "U+202F", "U+205F", "U+3000"}

Min(S) == CHOOSE x \in S : \A y \in S : x <= y
Max(S) == CHOOSE x \in S : \A y \in S : y <= x

\* line.strip()
strip(line) ==
    LET solid == {p \in 1..Len(line) : line[p] \notin Whitespace}
    IN  IF solid = {} THEN <<>> ELSE SubSeq(line, Min(solid), Max(solid))

\* s.startswith(prefix)
startswith(s, prefix) ==
    /\ Len(s) >= Len(prefix)
    /\ SubSeq(s, 1, Len(prefix)) = prefix

\* line.count(ch)
count(line, ch) == Cardinality({p \in 1..Len(line) : line[p] = ch})

\* The pattern rf'^export async function {func_name}\s*\(': func_name is put
\* into it as it is, so that its characters are read as a regular expression.
pattern(func_name) ==
    <<"^">> \o DeclPrefix \o func_name \o <<"\\", "s", "*", "\\", "(">>

Quantifiers == {"*", "+", "?"}

\* re.compile, from position p of the pattern: the items <<kind, char,
\* quantifier>> of the expression, "|" being the item of kind "alt".  It
\* reads literal characters, ".", "^", "$", "|", an escaped character, the
\* class \s, and the quantifiers * + ? with their lazy forms *? +? ?? and
\* their possessive forms *+ ++ ?+ (quantifiers "*+", "++", "?+" of the item);
\* func_name holds no bracket, brace, parenthesis or backslash, and no
\* quantifier that re.compile refuses.
RECURSIVE compile(_, _)
compile(pat, p) ==
    IF p > Len(pat) THEN <<>>
    ELSE LET esc == pat[p] = "\\" /\ p < Len(pat)
             atom == IF esc
                     THEN IF pat[p + 1] = "s" THEN <<"space", " ">>
                          ELSE <<"lit", pat[p + 1]>>
                     ELSE CASE pat[p] = "." -> <<"any", ".">>
                            [] pat[p] = "^" -> <<"bol", "^">>
                            [] pat[p] = "$" -> <<"eol", "$">>
                            [] pat[p] = "|" -> <<"alt", "|">>
                            [] OTHER -> <<"lit", pat[p]>>
             q == p + (IF esc THEN 2 ELSE 1)
             repeated == q <= Len(pat) /\ pat[q] \in Quantifiers /\ atom[1] # "alt"
             lazy == repeated /\ q + 1 <= Len(pat) /\ pat[q + 1] = "?"
             possessive == repeated /\ q + 1 <= Len(pat) /\ pat[q + 1] = "+"
             next == q + (IF repeated THEN 1 ELSE 0)
                       + (IF lazy \/ possessive THEN 1 ELSE 0)
             quantifier == IF ~repeated THEN "1"
                           ELSE IF possessive THEN pat[q] \o "+" ELSE pat[q]
         IN  <<<<atom[1], atom[2], quantifier>>>> \o compile(pat, next)

\* The alternatives of the compiled expression: the items between the "|".
RECURSIVE alternatives(_)
alternatives(items) ==
    LET bars == {k \in 1..Len(items) : items[k][1] = "alt"}
    IN  IF bars = {} THEN <<items>>
        ELSE <<SubSeq(items, 1, Min(bars) - 1)>>
                 \o alternatives(SubSeq(items, Min(bars) + 1, Len(items)))

\* Whether the item matches at position p of the line; "^" and "$" take no
\* character ("$": the end, or the newline that ends the line), "." takes any
\* character but the newline.
item_at(item, line, p) ==
    CASE item[1] = "bol" -> p = 1
      [] item[1] = "eol" -> p = Len(line) + 1 \/ (p = Len(line) /\ line[p] = "\n")
      [] item[1] = "any" -> p <= Len(line) /\ line[p] # "\n"
      [] item[1] = "space" -> p <= Len(line) /\ line[p] \in Whitespace
      [] OTHER -> p <= Len(line) /\ line[p] = item[2]

item_width(item) == IF item[1] \in {"bol", "eol"} THEN 0 ELSE 1

\* The position after the longest run of characters from position p on that
\* the item matches, of at most limit characters: what a possessive quantifier
\* takes, and never gives back.
RECURSIVE run_end(_, _, _, _)
run_end(item, line, p, limit) ==
    IF limit > 0 /\ item_at(item, line, p)
    THEN run_end(item, line, p + 1, limit - 1)
    ELSE p

\* Whether the items from the k-th on match the line from position p on.
RECURSIVE match_items(_, _, _, _)
match_items(items, k, line, p) ==
    IF k > Len(items) THEN TRUE
    ELSE LET item == items[k]
             w == item_width(item)
         IN  CASE item[3] = "1" ->
                     item_at(item, line, p) /\ match_items(items, k + 1, line, p + w)
               [] item[3] = "?" ->
                     \/ item_at(item, line, p) /\ match_items(items, k + 1, line, p + w)
                     \/ match_items(items, k + 1, line, p)
               [] item[3] = "*" ->
                     \/ item_at(item, line, p) /\ match_items(items, k, line, p + w)
                     \/ match_items(items, k + 1, line, p)
               [] item[3] = "+" ->
                     item_at(item, line, p)
                         /\ \/ match_items(items, k, line, p + w)
                            \/ match_items(items, k + 1, line, p + w)
               [] item[3] = "?+" ->
                     match_items(items, k + 1, line, run_end(item, line, p, 1))
               [] item[3] = "*+" ->
                     match_items(items, k + 1, line, run_end(item, line, p, Len(line)))
               [] item[3] = "++" ->
                     item_at(item, line, p)
                         /\ match_items(items, k + 1, line, run_end(item, line, p, Len(line)))

\* re.compile(rf'^export async function {func_name}\s*\('): the alternatives.
program(func_name) == alternatives(compile(pattern(func_name), 1))

\* pattern.match(line) is not None, for the compiled pattern.
regex_match(alts, line) ==
    \E a \in 1..Len(alts) : match_items(alts[a], 1, line, 1)

\* The characters a regular expression does not read as themselves.
RegexSpecial == {".", "^", "$", "*", "+", "?", "{", "}", "[", "]", "\\", "|", "(", ")"}

\* Whether every character of the name stands for itself in the pattern.
plain(func_name) ==
    \A k \in 1..Len(func_name) : func_name[k] \notin RegexSpecial

\* The match of a plain name: the line starts with 'export async function '
\* and the name, followed by any whitespace and "(".
plain_match(func_name, line) ==
    LET head == DeclPrefix \o func_name
    IN  /\ startswith(line, head)
        /\ \E p \in (Len(head) + 1)..Len(line) :
              /\ line[p] = "("
              /\ \A q \in (Len(head) + 1)..(p - 1) : line[q] \in Whitespace

\* re.match(rf'^export async function {func_name}\s*\(', line).  A plain name
\* is matched as it stands, any other name through the compiled expression.
re_match(func_name, line) ==
    IF plain(func_name) THEN plain_match(func_name, line)
    ELSE regex_match(program(func_name), line)

\* ------------------------------------------------ find_function_boundaries

\* doc_start with a blank line ending the walk (line 58 without its
\* "lines[j].strip() and").
RECURSIVE doc_start_blank_stops(_, _, _)
doc_start_blank_stops(lines, i, j) ==
    IF j < 1 THEN i
    ELSE IF startswith(strip(lines[j]), <<"/","*","*">>) THEN j
    ELSE IF ~startswith(strip(lines[j]), <<"*">>) THEN i
    ELSE doc_start_blank_stops(lines, i, j - 1)

\* doc_start without the break on a code line (lines 58-59 dropped).
RECURSIVE doc_start_no_stop(_, _, _)
doc_start_no_stop(lines, i, j) ==
    IF j < 1 THEN i
    ELSE IF startswith(strip(lines[j]), <<"/","*","*">>) THEN j
    ELSE doc_start_no_stop(lines, i, j - 1)

\* The backward walk for the JSDoc opening, at line j below declaration i.
RECURSIVE doc_start(_, _, _)
doc_start(lines, i, j) ==
    IF j < 1 THEN i
    ELSE IF startswith(strip(lines[j]), <<"/","*","*">>) THEN j
    ELSE IF strip(lines[j]) # <<>> /\ ~startswith(strip(lines[j]), <<"*">>) THEN i
    ELSE doc_start(lines, i, j - 1)

\* brace_end ending on the first line that lowers the count (an inner close).
RECURSIVE brace_end_first_close(_, _, _, _)
brace_end_first_close(lines, i, k, brace_count) ==
    IF k > Len(lines) THEN None
    ELSE LET c == brace_count + count(lines[k], "{") - count(lines[k], "}")
         IN  IF (c = 0 \/ c < brace_count) /\ count(lines[i], "{") > 0 THEN k
             ELSE brace_end_first_close(lines, i, k + 1, c)

\* brace_end testing brace_count <= 0 instead of brace_count == 0.
RECURSIVE brace_end_nonpositive(_, _, _, _)
brace_end_nonpositive(lines, i, k, brace_count) ==
    IF k > Len(lines) THEN None
    ELSE LET c == brace_count + count(lines[k], "{") - count(lines[k], "}")
         IN  IF c <= 0 /\ count(lines[i], "{") > 0 THEN k
             ELSE brace_end_nonpositive(lines, i, k + 1, c)

\* brace_end falling back to the last line when the count never returns to 0.
RECURSIVE brace_end_truncate(_, _, _, _)
brace_end_truncate(lines, i, k, brace_count) ==
    IF k > Len(lines) THEN Len(lines)
    ELSE LET c == brace_count + count(lines[k], "{") - count(lines[k], "}")
         IN  IF c = 0 /\ count(lines[i], "{") > 0 THEN k
             ELSE brace_end_truncate(lines, i, k + 1, c)

\* The forward brace count at line k, brace_count being the count before it.
RECURSIVE brace_end(_, _, _, _)
brace_end(lines, i, k, brace_count) ==
    IF k > Len(lines) THEN None
    ELSE LET c == brace_count + count(lines[k], "{") - count(lines[k], "}")
         IN  IF c = 0 /\ count(lines[i], "{") > 0 THEN k
             ELSE brace_end(lines, i, k + 1, c)

\* The first line matching the declaration pattern, or None (the pattern is
\* compiled once, as the cache of re.match has it).
first_match(lines, func_name) ==
    LET simple == plain(func_name)
        alts == program(func_name)
        hits == {i \in 1..Len(lines) :
                    IF simple THEN plain_match(func_name, lines[i])
                    ELSE regex_match(alts, lines[i])}
    IN  IF hits = {} THEN None ELSE Min(hits)

\* find_function_boundaries(lines, func_name): <<start_idx, end_idx>>
find_function_boundaries(lines, func_name) ==
    LET i == first_match(lines, func_name)
    IN  IF i = None THEN <<None, None>>
        ELSE <<doc_start(lines, i, i - 1), brace_end(lines, i, i, 0)>>

\* ------------------------------------------------------------ main

located(lines, func_name) ==
    LET b == find_function_boundaries(lines, func_name)
    IN  b[1] # None /\ b[2] # None

\* locate_all giving up at the first name that is not found.
RECURSIVE locate_all_abort(_, _)
locate_all_abort(lines, fnames) ==
    IF fnames = <<>> THEN <<>>
    ELSE LET b == find_function_boundaries(lines, Head(fnames))
         IN  IF b[1] # None /\ b[2] # None
             THEN <<<<b[1], b[2], Head(fnames)>>>>
                      \o locate_all_abort(lines, Tail(fnames))
             ELSE <<>>

\* The loop over FUNCTIONS_TO_REMOVE: ranges_to_remove before the sort.
RECURSIVE locate_all(_, _)
locate_all(lines, fnames) ==
    IF fnames = <<>> THEN <<>>
    ELSE LET b == find_function_boundaries(lines, Head(fnames))
             rest == locate_all(lines, Tail(fnames))
         IN  IF b[1] # None /\ b[2] # None
             THEN <<<<b[1], b[2], Head(fnames)>>>> \o rest
             ELSE rest

\* The names the loop prints as not found.
not_found(lines, fnames) ==
    SelectSeq(fnames, LAMBDA n : ~located(lines, n))

\* The printable ASCII characters, in the order of their code points.
Ascii ==
    <<" ","!","\"","#","$","%","&","'","(",")","*","+",",","-",".","/","0","1","2","3","4","5","6","7","8","9",":",";","<","=",">","?","@","A","B","C","D","E","F","G","H","I","J","K","L","M","N","O","P","Q","R","S","T","U","V","W","X","Y","Z","[","\\","]","^","_","U+0060","a","b","c","d","e","f","g","h","i","j","k","l","m","n","o","p","q","r","s","t","u","v","w","x","y","z","{","|","}","~">>

\* ord(ch), for the ASCII characters names are made of.
ord(ch) == 31 + Min({c \in 1..Len(Ascii) : Ascii[c] = ch})

\* a < b on str
RECURSIVE str_less(_, _)
str_less(a, b) ==
    IF b = <<>> THEN FALSE
    ELSE IF a = <<>> THEN TRUE
    ELSE IF Head(a) # Head(b) THEN ord(Head(a)) < ord(Head(b))
    ELSE str_less(Tail(a), Tail(b))

\* a < b on the tuples (start, end, func_name)
tuple_less(a, b) ==
    \/ a[1] < b[1]
    \/ a[1] = b[1] /\ a[2] < b[2]
    \/ a[1] = b[1] /\ a[2] = b[2] /\ str_less(a[3], b[3])

remove_first(s, x) ==
    LET p == Min({q \in 1..Len(s) : s[q] = x})
    IN  SubSeq(s, 1, p - 1) \o SubSeq(s, p + 1, Len(s))

\* ranges_to_remove.sort(): ascending, reverse=True forgotten.
RECURSIVE sort_forward(_)
sort_forward(rs) ==
    IF rs = <<>> THEN <<>>
    ELSE LET low == CHOOSE x \in {rs[q] : q \in 1..Len(rs)} :
                        \A q \in 1..Len(rs) : ~tuple_less(rs[q], x)
         IN  <<low>> \o sort_forward(remove_first(rs, low))

\* No sort at all: the ranges stay in the order of the requested names.
sort_missing(rs) == rs

\* ranges_to_remove.sort(reverse=True)
RECURSIVE sort_reverse(_)
sort_reverse(rs) ==
    IF rs = <<>> THEN <<>>
    ELSE LET top == CHOOSE x \in {rs[q] : q \in 1..Len(rs)} :
                        \A q \in 1..Len(rs) : ~tuple_less(x, rs[q])
         IN  <<top>> \o sort_reverse(remove_first(rs, top))

\* del lines[start:end]: the end line itself is kept.
del_slice_exclusive(lines, start, end) ==
    LET lo == IF start - 1 < Len(lines) THEN start - 1 ELSE Len(lines)
        hi == IF end - 1 < Len(lines) THEN end - 1 ELSE Len(lines)
    IN  IF hi <= lo THEN lines
        ELSE SubSeq(lines, 1, lo) \o SubSeq(lines, hi + 1, Len(lines))

\* del lines[start:end + 1], start and end 1-based here; the slice is clamped
del_slice(lines, start, end) ==
    LET lo == IF start - 1 < Len(lines) THEN start - 1 ELSE Len(lines)
        hi == IF end < Len(lines) THEN end ELSE Len(lines)
    IN  IF hi <= lo THEN lines
        ELSE SubSeq(lines, 1, lo) \o SubSeq(lines, hi + 1, Len(lines))

\* The loop that deletes the sorted ranges one after the other.
RECURSIVE delete_ranges(_, _)
delete_ranges(lines, rs) ==
    IF rs = <<>> THEN lines
    ELSE delete_ranges(del_slice(lines, Head(rs)[1], Head(rs)[2]), Tail(rs))

\* The plan main applies: the located ranges, sorted.
plan(lines, fnames) == sort_reverse(locate_all(lines, fnames))

\* The lines main writes back.
main_output(lines, fnames) == delete_ranges(lines, plan(lines, fnames))

\* ------------------------------------------------------------ actions

TypeInit(pool, lists) ==
    /\ file \in Docs(pool)
    /\ names \in lists
    /\ original = file
    /\ read = file
    /\ ranges = <<>>
    /\ notFound = <<>>
    /\ runs = 0
    /\ boundary = <<>>

Init == TypeInit(BatchPool, NameLists)

InitLocate == TypeInit(LocatePool, {<<n>> : n \in LocateNames})

\* One run of main() on the file.
Main ==
    /\ runs < MaxRuns
    /\ LET p == plan(file, names)
       IN  /\ ranges' = p
           /\ notFound' = not_found(file, names)
           /\ file' = delete_ranges(file, p)
    /\ read' = file
    /\ runs' = runs + 1
    /\ UNCHANGED <<names, original, boundary>>

\* One call find_function_boundaries(lines, func_name) on the file.
Locate ==
    /\ boundary = <<>>
    /\ boundary' = find_function_boundaries(file, names[1])
    /\ UNCHANGED <<file, names, original, read, ranges, notFound, runs>>

Next == Main

NextLocate == Locate

Spec == Init /\ [][Next]_vars

SpecLocate == InitLocate /\ [][NextLocate]_vars

\* ------------------------------------------------------------ properties

is_blank(line) == strip(line) = <<>>
is_doc_open(line) == startswith(strip(line), <<"/","*","*">>)
is_star(line) == startswith(strip(line), <<"*">>)

\* Opening minus closing delimiters on the whole lines i..k of the document.
net_balance(lines, i, k) ==
    LET at(ch) == UNION {{<<m, p>> : p \in {q \in 1..Len(lines[m]) : lines[m][q] = ch}} :
                         m \in i..k}
    IN  Cardinality(at("{")) - Cardinality(at("}"))

\* The declaration line of the name the locator was called with.
DeclLine == first_match(file, names[1])

\* A documentation block opening on line j, then one or more blank lines,
\* then the declaration on line i.
BlankSeparatedDoc(lines, i, j) ==
    /\ j >= 1 /\ j < i
    /\ is_doc_open(lines[j])
    /\ \E b \in (j + 1)..(i - 1) :
          /\ \A m \in (j + 1)..(b - 1) : is_star(lines[m])
          /\ \A m \in b..(i - 1) : is_blank(lines[m])

\* A documentation block opening on line j and reaching, with comment-marker
\* lines only, down to the declaration on line i.
AdjacentDoc(lines, i, j) ==
    /\ j >= 1 /\ j < i
    /\ is_doc_open(lines[j])
    /\ \A m \in (j + 1)..(i - 1) : is_star(lines[m])

\* The walk up from line i meets a code line, or the top, before any opening.
NoOpeningAbove(lines, i) ==
    \E j \in 0..(i - 1) :
        /\ j = 0 \/ (~is_blank(lines[j]) /\ ~is_star(lines[j]) /\ ~is_doc_open(lines[j]))
        /\ \A m \in (j + 1)..(i - 1) : is_blank(lines[m]) \/ is_star(lines[m])

\* C4 as stated: when one or more blank lines separate a documentation block
\* from the matched declaration line, the start line the locator returns is
\* the declaration line itself.
C4_BlankLineDetaches ==
    LET d == DeclLine
    IN
        (boundary # <<>> /\ d # None) =>
            \A j \in 1..Len(file) :
                BlankSeparatedDoc(file, d, j) => boundary[1] = d

\* C4 amended: when only blank lines separate a documentation block from the
\* matched declaration line, the start line the locator returns is the line of
\* the block's opening marker (blank lines do not stop the backward walk).
C4_BlankLineAbsorbed ==
    LET d == DeclLine
    IN
        (boundary # <<>> /\ d # None) =>
            \A j \in 1..Len(file) :
                BlankSeparatedDoc(file, d, j) => boundary[1] = j

C4_Witness ==
    LET d == DeclLine
    IN
        /\ boundary # <<>>
        /\ d # None
        /\ boundary[2] # None
        /\ \E j \in 1..Len(file) :
              /\ BlankSeparatedDoc(file, d, j)
              /\ boundary[1] = j
              /\ boundary[1] < d - 1

\* C5: a documentation block directly above the declaration (no blank line)
\* makes the start line the block's opening line; a walk that meets a
\* non-blank, non-comment line or the top of the document before any opening
\* marker leaves the start line at the declaration line.
C5_AdjacentDocAttached ==
    LET d == DeclLine
    IN
        (boundary # <<>> /\ d # None) =>
            /\ \A j \in 1..Len(file) :
                  AdjacentDoc(file, d, j) => boundary[1] = j
            /\ NoOpeningAbove(file, d) => boundary[1] = d

C5_Witness ==
    LET d == DeclLine
    IN
        /\ boundary # <<>>
        /\ d # None
        /\ d >= 3
        /\ boundary[2] # None
        /\ AdjacentDoc(file, d, d - 2)
        /\ is_star(file[d - 1])
        /\ boundary[1] = d - 2

\* C8: for a declaration whose body holds nested delimiter pairs on separate
\* lines, the end line is the line on which the outermost pair closes: the
\* first line at which the balance counted from the declaration line is zero,
\* all lines before it leaving it positive; a line on which an inner pair
\* closes (the balance stays positive) is never the end line.
C8_OutermostClose ==
    LET d == DeclLine
    IN
        (boundary # <<>> /\ d # None) =>
            /\ \A k \in d..Len(file) :
                  ( /\ count(file[d], "{") > 0
                    /\ \A m \in d..(k - 1) : net_balance(file, d, m) >= 1
                    /\ net_balance(file, d, k) = 0 )
                  => boundary[2] = k
            /\ \A m \in d..Len(file) :
                  (count(file[m], "}") > 0 /\ net_balance(file, d, m) >= 1)
                  => boundary[2] # m

C8_Witness ==
    LET d == DeclLine
    IN
        /\ boundary # <<>>
        /\ d # None
        /\ boundary[2] # None
        /\ \E m \in d..(Len(file) - 2) :
              /\ net_balance(file, d, m) = 2
              /\ count(file[m + 1], "}") > 0
              /\ net_balance(file, d, m + 1) = 1
              /\ boundary[2] = m + 2

\* The end line of the character scan: from line k, position p, with the
\* balance bal, counting only once an opening delimiter has been seen.
RECURSIVE char_scan_end(_, _, _, _, _)
char_scan_end(lines, k, p, bal, started) ==
    IF k > Len(lines) THEN None
    ELSE IF p > Len(lines[k]) THEN char_scan_end(lines, k + 1, 1, bal, started)
    ELSE IF lines[k][p] = "{" THEN char_scan_end(lines, k, p + 1, bal + 1, TRUE)
    ELSE IF lines[k][p] = "}" /\ started
         THEN IF bal = 1 THEN k
              ELSE char_scan_end(lines, k, p + 1, bal - 1, TRUE)
    ELSE char_scan_end(lines, k, p + 1, bal, started)

\* C10 as stated: the end line of a located Boundary is the first line on
\* which the balance, updated character by character from the first opening
\* delimiter seen, returns to zero after having been positive.
C10_CharScanEnd ==
    LET d == DeclLine
    IN
        (boundary # <<>> /\ d # None /\ boundary[2] # None) =>
            boundary[2] = char_scan_end(file, d, 1, 0, FALSE)

\* C10 amended: the end line is the first line, at or after the declaration
\* line, at the END of which the balance of all opening minus all closing
\* delimiters on the lines from the declaration line on is zero, provided the
\* declaration line holds an opening delimiter; without such a line, or
\* without an opening delimiter on the declaration line, there is no end line.
C10_LineEndBalance ==
    LET d == DeclLine
    IN
        (boundary # <<>> /\ d # None) =>
            LET zeros == {k \in d..Len(file) : net_balance(file, d, k) = 0}
            IN  boundary[2] = IF count(file[d], "{") > 0 /\ zeros # {}
                              THEN Min(zeros) ELSE None

C10_Witness ==
    LET d == DeclLine
    IN
        /\ boundary # <<>>
        /\ d # None
        /\ boundary[2] # None
        /\ char_scan_end(file, d, 1, 0, FALSE) # None
        /\ char_scan_end(file, d, 1, 0, FALSE) < boundary[2]
        /\ net_balance(file, d, boundary[2]) = 0

\* ---------------------------------------------- properties of the batch run

\* The requested names, and the names reported as not found, as sets.
Requested == {names[q] : q \in 1..Len(names)}
Reported == {notFound[q] : q \in 1..Len(notFound)}

\* The line numbers the located ranges of the last run cover.
Covered == UNION {r[1]..r[2] : r \in {ranges[q] : q \in 1..Len(ranges)}}

\* The lines of the document whose numbers are not in gone, in their order.
keep_outside(lines, gone) ==
    LET kept == SelectSeq([p \in 1..Len(lines) |-> p], LAMBDA p : p \notin gone)
    IN  [q \in 1..Len(kept) |-> lines[kept[q]]]

\* The sum of (end - start + 1) over the ranges.
RECURSIVE range_sum(_)
range_sum(rs) ==
    IF rs = <<>> THEN 0
    ELSE Head(rs)[2] - Head(rs)[1] + 1 + range_sum(Tail(rs))

\* No two entries of the plan share a line.
Disjoint(rs) ==
    \A q1, q2 \in 1..Len(rs) :
        q1 # q2 => (rs[q1][2] < rs[q2][1] \/ rs[q2][2] < rs[q1][1])

Distinct(s) == \A q1, q2 \in 1..Len(s) : q1 # q2 => s[q1] # s[q2]

\* C1: for distinct names whose located ranges are pairwise non-overlapping,
\* the document after the batch is the one read with exactly the lines of the
\* union of the ranges removed, every other line verbatim and in order; its
\* length is the length read minus the sum of (end - start + 1).
C1_DisjointRemoval ==
    (runs >= 1 /\ Distinct(names) /\ Disjoint(ranges)) =>
        /\ file = keep_outside(read, Covered)
        /\ Len(file) = Len(read) - range_sum(ranges)

C1_Witness ==
    /\ runs = 1
    /\ Len(names) = 2
    /\ Distinct(names)
    /\ Len(ranges) = 2
    /\ Disjoint(ranges)
    /\ ranges[1][3] = names[2]
    /\ ranges[2][2] > ranges[2][1]
    /\ file # <<>>
    /\ file = keep_outside(read, Covered)

\* The orders the requested names can be given in.
Perms(s) ==
    {[q \in 1..Len(s) |-> s[f[q]]] :
        f \in {g \in [1..Len(s) -> 1..Len(s)] :
                  \A q1, q2 \in 1..Len(s) : q1 # q2 => g[q1] # g[q2]}}

\* C2: whatever the order the names are requested in, the document the batch
\* writes is the same.
C2_OrderIndependent ==
    runs >= 1 => \A p \in Perms(names) : main_output(read, p) = file

C2_Witness ==
    /\ runs = 1
    /\ Len(names) = 2
    /\ names[1] # names[2]
    /\ located(read, names[1])
    /\ located(read, names[2])
    /\ find_function_boundaries(read, names[1])[1]
           < find_function_boundaries(read, names[2])[1]
    /\ file # <<>>
    /\ main_output(read, <<names[2], names[1]>>) = file

\* C3 as stated: a second run with the same names on the output of the first
\* reports every name as not found and leaves the document as it was.
C3_RerunIdempotent ==
    runs >= 2 => (notFound = names /\ file = read)

\* Every requested name matches at most one line of the document, and each
\* name that matches a line is located there.
SingleAndLocated(lines) ==
    \A n \in Requested :
        LET hits == {i \in 1..Len(lines) : re_match(n, lines[i])}
        IN  /\ Cardinality(hits) <= 1
            /\ hits # {} => located(lines, n)

\* C3 amended: when, in the document the first run reads, every requested
\* name matches at most one declaration line and every name that matches is
\* located, a second run with the same names on the first run's output
\* reports every name as not found and leaves the document as it was.
C3_RerunIdempotentSingle ==
    (runs >= 2 /\ SingleAndLocated(original)) =>
        (notFound = names /\ file = read)

C3_Witness ==
    /\ runs = 2
    /\ SingleAndLocated(original)
    /\ \A n \in Requested : located(original, n)
    /\ Len(names) = 2
    /\ names[1] # names[2]
    /\ read # <<>>
    /\ notFound = names
    /\ file = read

\* The lines of the document that match the declaration pattern of name n.
Matches(lines, n) == {i \in 1..Len(lines) : re_match(n, lines[i])}

\* C6: a requested name without a located Boundary is reported as not found
\* and is in no entry of the plan; every located name has its entry in the
\* plan and its declaration line is removed in the same batch; when no requested name
\* is located the document is unchanged.
C6_NotFoundSkipped ==
    runs >= 1 =>
        /\ \A n \in Requested :
              IF located(read, n)
              THEN /\ n \notin Reported
                   /\ \E q \in 1..Len(ranges) :
                         ranges[q] = <<find_function_boundaries(read, n)[1],
                                       find_function_boundaries(read, n)[2], n>>
                   /\ Cardinality(Matches(file, n)) < Cardinality(Matches(read, n))
              ELSE /\ n \in Reported
                   /\ \A q \in 1..Len(ranges) : ranges[q][3] # n
        /\ Len(ranges) + Len(notFound) = Len(names)
        /\ (\A n \in Requested : ~located(read, n)) => file = read

C6_Witness ==
    /\ runs = 1
    /\ Len(names) = 2
    /\ ~located(read, names[1])
    /\ first_match(read, names[1]) = None
    /\ located(read, names[2])
    /\ notFound = <<names[1]>>
    /\ Len(ranges) = 1
    /\ Len(file) < Len(read)

\* The first line matching name n in the document has no valid end: it holds
\* no opening delimiter, or the balance is zero at the end of no line from it
\* to the end of the document.
NoValidEnd(lines, n) ==
    LET i == first_match(lines, n)
    IN  /\ i # None
        /\ \/ count(lines[i], "{") = 0
           \/ \A k \in i..Len(lines) : net_balance(lines, i, k) # 0

\* C7: a name whose first matching line has no valid end is reported as not
\* found and no range is planned for it, so that none of its lines is deleted
\* (nothing is cut through the end of the document): the document is what the
\* other names' ranges leave, and unchanged when no other name is located.
C7_NoValidEndNotFound ==
    runs >= 1 =>
        \A n \in Requested :
            NoValidEnd(read, n) =>
                /\ find_function_boundaries(read, n)[2] = None
                /\ n \in Reported
                /\ \A q \in 1..Len(ranges) : ranges[q][3] # n
                /\ (\A n2 \in Requested \ {n} : ~located(read, n2)) => file = read

C7_Witness ==
    /\ runs = 1
    /\ names = <<(<<"A">>), (<<"A","B">>)>>
    /\ NoValidEnd(read, <<"A">>)
    /\ count(read[first_match(read, <<"A">>)], "{") > 0
    /\ first_match(read, <<"A">>) < Len(read)
    /\ NoValidEnd(read, <<"A","B">>)
    /\ count(read[first_match(read, <<"A","B">>)], "{") = 0
    /\ notFound = names
    /\ file = read

\* C9 (the consequence the claim promises of rejecting an overlapping plan):
\* after a run the document is either untouched or the one read without the
\* lines of the located ranges; no line outside their union is deleted.
C9_NoLineOutsideRangesDeleted ==
    runs >= 1 => (file = read \/ file = keep_outside(read, Covered))

=============================================================================
